---- MODULE Spec2Model ----
(***************************************************************************)
(* Admission control of modal-github-runner (src/app.py): the webhook      *)
(* handler github_webhook as a state machine over the module-level maps    *)
(* _processed_deliveries, _processed_jobs, _run_configs, _active_jobs and  *)
(* the asyncio lock _run_config_lock.                                      *)
(*                                                                         *)
(* One action is one run of a handler between two points where the         *)
(* coroutine really suspends.  The handler suspends at the lock            *)
(* acquisition (when the lock is taken), inside                            *)
(* fetch_workflow_max_parallel (HTTP) and at the generate-jitconfig POST.  *)
(* _spawn_sandbox and _try_process_queue contain no await of their own     *)
(* (modal.Sandbox.create is called through the blocking interface), so     *)
(* "await _spawn_sandbox(...)" never yields to the event loop and the      *)
(* capacity test, the spawn and the increment are one step.                *)
(***************************************************************************)
EXTENDS Integers, Sequences, FiniteSets, TLC

\* ------------------------------------------------------------------ bounds
\* Number of distinct delivery ids the environment uses.
MaxDeliveries == 4
\* Number of distinct job ids and run ids the environment uses.
MaxJobs == 3
MaxRuns == 2
\* Number of clock advances (each of TickSeconds).
MaxTicks == 1
\* Number of queued-phase handlers suspended at the same time.
MaxInflight == 2
\* Number of distinct delivery ids in the runs of one workflow run (SpecRetry).
MaxRetryDeliveries == 5
\* Number of clock advances of more than RUN_STALE_THRESHOLD_SECONDS (SpecStale).
MaxDays == 1

\* ------------------------------------------------------- program constants
JOB_DEDUP_WINDOW_SECONDS == 300
MAX_PROCESSED_CACHE_SIZE == 10000
DELIVERY_CACHE_MAX_SIZE == 10000
RUN_STALE_THRESHOLD_SECONDS == 86400

\* ------------------------------------------------------------ input domains
\* Ids are opaque strings to the handler, compared for equality only; they are
\* numbered here in the order in which the environment first uses them.
Jobs == 1 .. MaxJobs
Runs == 1 .. MaxRuns
Deliveries == 1 .. MaxDeliveries
TickSeconds == JOB_DEDUP_WINDOW_SECONDS
\* What the workflow file can declare as max-parallel: int() of any YAML
\* integer.  Nothing below distinguishes 0 from -1 except the sign.
DeclaredValues == {-1, 1}
\* Outcome of the two GitHub reads of fetch_workflow_max_parallel.
LookupOutcomes ==
    {[kind |-> "error", value |-> 0], [kind |-> "absent", value |-> 0]}
    \cup {[kind |-> "declared", value |-> v] : v \in DeclaredValues}

VARIABLES
    now,                    \* time.time(), seconds
    nextDelivery,           \* smallest delivery id never sent so far
    _processed_deliveries,  \* the delivery ids of Deliveries in the set
    untracked,              \* number of further ids in that set (see Flood)
    _processed_jobs,        \* job id -> time of admission
    _run_configs,           \* run id -> RunConfig
    _active_jobs,           \* job id -> ActiveJob
    _run_config_lock,       \* asyncio.Lock: [locked, waiters]
    handlers,               \* delivery id -> suspended queued-phase handler
    lookups,                \* run id -> calls of fetch_workflow_max_parallel
    untracked_jobs,         \* further job ids in _processed_jobs (see JobFlood)
    created_at,             \* run id -> RunConfig.created_at
    running,                \* history: executions spawned and not yet ended
    spawn_attempts,         \* history: credential -> calls of _spawn_sandbox
    cancel_seen,            \* history: handlers whose job was cancelled meanwhile
    io,                     \* kinds of external calls made by the last step
    resp                    \* response returned by the last step, if any

\* The admission-control state proper.
core == <<_processed_jobs, untracked_jobs, _run_configs, created_at,
          _active_jobs, _run_config_lock, handlers, lookups, spawn_attempts,
          cancel_seen, running>>

vars == <<now, nextDelivery, _processed_deliveries, untracked, _processed_jobs,
          untracked_jobs, _run_configs, created_at, _active_jobs,
          _run_config_lock, handlers, lookups, spawn_attempts, cancel_seen,
          running, io, resp>>

\* ---------------------------------------------------------------- helpers
Put(f, k, v) == [x \in (DOMAIN f) \cup {k} |-> IF x = k THEN v ELSE f[x]]
Del(f, k) == [x \in (DOMAIN f) \ {k} |-> f[x]]
EmptyMap == [x \in {} |-> 0]
Max(a, b) == IF a >= b THEN a ELSE b
RemoveAt(q, i) == [k \in 1 .. (Len(q) - 1) |-> IF k < i THEN q[k] ELSE q[k + 1]]

\* What a step shows to the outside: the response it returns (status "none"
\* when the handler is still suspended or the step is no handler's), and
\* whether the event that arrived in it carried a delivery id that had been
\* sent before / that was in _processed_deliveries on arrival.
NoResp == [status |-> "none", sent_before |-> FALSE, recorded |-> FALSE,
           active_count |-> 0, queue_position |-> 0, max_parallel |-> 0]
Response(status) == [NoResp EXCEPT !.status = status]
Arrival(d, status) ==
    [NoResp EXCEPT !.status = status,
                   !.sent_before = (d < nextDelivery),
                   !.recorded = (d \in _processed_deliveries)]

\* dataclasses
QueuedJob(job_id, jit_config, run_id) ==
    [job_id |-> job_id, jit_config |-> jit_config, run_id |-> run_id]
RunConfig(max_parallel) ==
    [max_parallel |-> max_parallel, active_count |-> 0, queue |-> <<>>]
ActiveJob(sandbox, run_id) == [sandbox |-> sandbox, run_id |-> run_id]

\* ---------------------------------------------------------- pure functions
\* The lookup with a default of 1 for 2.
fetch_workflow_max_parallel_DefaultOne(outcome) ==
    IF outcome.kind = "declared" THEN outcome.value ELSE 1

\* fetch_workflow_max_parallel: int(max-parallel) when the file declares one,
\* 2 when it does not or when anything raises.
fetch_workflow_max_parallel(outcome) ==
    IF outcome.kind = "declared" THEN outcome.value ELSE 2

\* len(_processed_jobs)
JobCount == Cardinality(DOMAIN _processed_jobs) + untracked_jobs.count

\* _cleanup_job_cache: above the cap, keep the entries younger than the window.
\* others = [count, timestamp] are the entries for job ids outside Jobs.
_cleanup_job_cache(jobs, others, current_time) ==
    IF Cardinality(DOMAIN jobs) + others.count > MAX_PROCESSED_CACHE_SIZE
    THEN [jobs |-> [j \in {k \in DOMAIN jobs :
                              current_time - jobs[k] < JOB_DEDUP_WINDOW_SECONDS}
                          |-> jobs[j]],
          others |-> IF current_time - others.timestamp < JOB_DEDUP_WINDOW_SECONDS
                     THEN others
                     ELSE [count |-> 0, timestamp |-> 0]]
    ELSE [jobs |-> jobs, others |-> others]

\* len(_processed_deliveries)
DeliveryCount == Cardinality(_processed_deliveries) + untracked

\* _cleanup_delivery_cache: above the cap, list(set)[MAX // 2:] drops the first
\* MAX // 2 ids in the set's iteration order, which is arbitrary.  The results
\* are all the ways of keeping len - MAX // 2 ids.
_cleanup_delivery_cache(tracked, others) ==
    IF Cardinality(tracked) + others > DELIVERY_CACHE_MAX_SIZE
    THEN LET keep == Cardinality(tracked) + others
                        - (DELIVERY_CACHE_MAX_SIZE \div 2)
         IN  {[tracked |-> k, others |-> keep - Cardinality(k)] :
                 k \in {x \in SUBSET tracked :
                          /\ Cardinality(x) <= keep
                          /\ keep - Cardinality(x) <= others}}
    ELSE {[tracked |-> tracked, others |-> others]}

\* ------------------------------------------------- sandbox / queue operators
\* These work on s = [rc, aj, io, sa, run]: _run_configs, _active_jobs, the
\* calls made, the history of the credentials given to _spawn_sandbox, and the
\* executions that are running.

\* The credential of one generate-jitconfig answer.
Credential(job_id, jit_config) == [job_id |-> job_id, jit_config |-> jit_config]
Attempts(sa, c) == IF c \in DOMAIN sa THEN sa[c] ELSE 0
\* The execution started by one successful Sandbox.create.
Execution(job_id, jit_config, run_id) ==
    [job_id |-> job_id, jit_config |-> jit_config, run_id |-> run_id]

\* _spawn_sandbox: Sandbox.create + set_tags, then the ledger entry.  ok = FALSE
\* is either call raising: the exception leaves before the ledger is written.
\* The sandbox handle is named after the JIT config it was started with.
_spawn_sandbox(s, jit_config, job_id, run_id, ok) ==
    [s EXCEPT !.io = @ \cup {"spawn"},
              !.sa = Put(@, Credential(job_id, jit_config),
                         Attempts(@, Credential(job_id, jit_config)) + 1),
              !.aj = IF ok THEN Put(@, job_id, ActiveJob(jit_config, run_id))
                     ELSE @,
              !.run = IF ok THEN @ \cup {Execution(job_id, jit_config, run_id)}
                      ELSE @]

\* The drain dropping the popped job when the spawn raises.
_try_process_queue_DropOnFailure(s, run_id, ok) ==
    IF run_id \notin DOMAIN s.rc THEN s
    ELSE IF s.rc[run_id].active_count >= s.rc[run_id].max_parallel THEN s
    ELSE IF s.rc[run_id].queue = <<>> THEN s
    ELSE LET queued_job == Head(s.rc[run_id].queue)
             popped == [s EXCEPT !.rc[run_id].queue = Tail(@)]
             spawned == _spawn_sandbox(popped, queued_job.jit_config,
                                       queued_job.job_id, run_id, ok)
         IN  IF ok
             THEN [spawned EXCEPT !.rc[run_id].active_count = @ + 1]
             ELSE spawned

\* The drain taking the last queued job for the first.
_try_process_queue_LIFO(s, run_id, ok) ==
    IF run_id \notin DOMAIN s.rc THEN s
    ELSE IF s.rc[run_id].active_count >= s.rc[run_id].max_parallel THEN s
    ELSE IF s.rc[run_id].queue = <<>> THEN s
    ELSE LET queue == s.rc[run_id].queue
             queued_job == queue[Len(queue)]
             popped == [s EXCEPT !.rc[run_id].queue =
                                     SubSeq(queue, 1, Len(queue) - 1)]
             spawned == _spawn_sandbox(popped, queued_job.jit_config,
                                       queued_job.job_id, run_id, ok)
         IN  IF ok
             THEN [spawned EXCEPT !.rc[run_id].active_count = @ + 1]
             ELSE [spawned EXCEPT !.rc[run_id].queue = <<queued_job>> \o @]

\* Lines 292-327: pop the head when there is capacity, spawn it, count it; put
\* it back at the head when the spawn raises.
_try_process_queue(s, run_id, ok) ==
    IF run_id \notin DOMAIN s.rc THEN s
    ELSE IF s.rc[run_id].active_count >= s.rc[run_id].max_parallel THEN s
    ELSE IF s.rc[run_id].queue = <<>> THEN s
    ELSE LET queued_job == Head(s.rc[run_id].queue)
             popped == [s EXCEPT !.rc[run_id].queue = Tail(@)]
             spawned == _spawn_sandbox(popped, queued_job.jit_config,
                                       queued_job.job_id, run_id, ok)
         IN  IF ok
             THEN [spawned EXCEPT !.rc[run_id].active_count = @ + 1]
             ELSE [spawned EXCEPT !.rc[run_id].queue = <<queued_job>> \o @]

\* Lines 487-491 and 516-520:
\* active_count = max(0, active_count - 1); await _try_process_queue(run_id)
ReleaseSlot(s, run_id, ok) ==
    IF run_id \in DOMAIN s.rc
    THEN _try_process_queue(
             [s EXCEPT !.rc[run_id].active_count = Max(0, @ - 1),
                       !.io = @ \cup {"drain"}],
             run_id, ok)
    ELSE s

\* The first queue position holding job_id, 0 when there is none.
QueueIndex(queue, job_id) ==
    IF \E i \in 1 .. Len(queue) : queue[i].job_id = job_id
    THEN CHOOSE i \in 1 .. Len(queue) :
            /\ queue[i].job_id = job_id
            /\ \A k \in 1 .. (i - 1) : queue[k].job_id # job_id
    ELSE 0

\* Lines 464-472: remove the job from the queue of the event's run.
RemoveFromQueue(s, job_id, run_id) ==
    IF run_id \in DOMAIN s.rc /\ QueueIndex(s.rc[run_id].queue, job_id) > 0
    THEN [s EXCEPT !.rc[run_id].queue =
                       RemoveAt(@, QueueIndex(s.rc[run_id].queue, job_id))]
    ELSE s

\* conclusion == "cancelled", lines 461-509
HandleCancelled(s, job_id, run_id, ok) ==
    LET removed_from_queue ==
            /\ run_id \in DOMAIN s.rc
            /\ QueueIndex(s.rc[run_id].queue, job_id) > 0
        s1 == RemoveFromQueue(s, job_id, run_id)
    IN  IF job_id \in DOMAIN s1.aj
        THEN ReleaseSlot([s1 EXCEPT !.io = @ \cup {"terminate"},
                                    !.aj = Del(@, job_id)],
                         run_id, ok)
        ELSE IF ~removed_from_queue
        THEN [s1 EXCEPT !.io = @ \cup {"list"}]
        ELSE s1

\* any other conclusion, lines 511-520
HandleCompleted(s, job_id, run_id, ok) ==
    IF job_id \in DOMAIN s.aj
    THEN ReleaseSlot([s EXCEPT !.aj = Del(@, job_id)], run_id, ok)
    ELSE s

\* The logger.info of line 522 reads _run_configs[run_id] without a test.
CompletedRaises(s, job_id, run_id) ==
    job_id \in DOMAIN s.aj /\ run_id \notin DOMAIN s.rc

\* The admission with <= for < in the capacity test.
Admit_AtLimit(s, job_id, run_id, jit_config, ok) ==
    IF s.rc[run_id].active_count <= s.rc[run_id].max_parallel
    THEN LET spawned == _spawn_sandbox(s, jit_config, job_id, run_id, ok)
         IN  IF ok
             THEN [spawned EXCEPT !.rc[run_id].active_count = @ + 1]
             ELSE spawned
    ELSE [s EXCEPT !.rc[run_id].queue =
                       Append(@, QueuedJob(job_id, jit_config, run_id))]

\* Lines 646-688: dispatch when there is capacity, enqueue otherwise.
Admit(s, job_id, run_id, jit_config, ok) ==
    IF s.rc[run_id].active_count < s.rc[run_id].max_parallel
    THEN LET spawned == _spawn_sandbox(s, jit_config, job_id, run_id, ok)
         IN  IF ok
             THEN [spawned EXCEPT !.rc[run_id].active_count = @ + 1]
             ELSE spawned
    ELSE [s EXCEPT !.rc[run_id].queue =
                       Append(@, QueuedJob(job_id, jit_config, run_id))]

\* The dict returned at 656-660 or 682-688, or the HTTPException of 665.
AdmitResponse(s, t, run_id, ok) ==
    IF s.rc[run_id].active_count < s.rc[run_id].max_parallel
    THEN IF ok
         THEN [Response("provisioned") EXCEPT
                   !.active_count = t.rc[run_id].active_count]
         ELSE Response("error")
    ELSE [Response("queued") EXCEPT
              !.queue_position = Len(t.rc[run_id].queue),
              !.active_count = t.rc[run_id].active_count,
              !.max_parallel = t.rc[run_id].max_parallel]

\* The window test with <= for <.
RecentlyProcessed_Inclusive(jobs, job_id, current_time) ==
    /\ job_id \in DOMAIN jobs
    /\ current_time - jobs[job_id] <= JOB_DEDUP_WINDOW_SECONDS

\* Lines 565-567: the job id was admitted less than the window ago.
RecentlyProcessed(jobs, job_id, current_time) ==
    /\ job_id \in DOMAIN jobs
    /\ current_time - jobs[job_id] < JOB_DEDUP_WINDOW_SECONDS

\* A lock that never makes anybody wait.
LockFree_Always(lock) == TRUE

\* -------------------------------------------------------------- asyncio.Lock
\* acquire() takes the lock at once only when it is unlocked and nobody waits;
\* release() unlocks and wakes the first waiter, who takes the lock when it
\* runs next.
LockFree(lock) == ~lock.locked /\ lock.waiters = <<>>
Release(lock) == [lock EXCEPT !.locked = FALSE]

\* ------------------------------------------------------------------- actions
Init ==
    /\ now = 0
    /\ nextDelivery = 1
    /\ _processed_deliveries = {}
    /\ untracked = 0
    /\ _processed_jobs = EmptyMap
    /\ _run_configs = EmptyMap
    /\ _active_jobs = EmptyMap
    /\ _run_config_lock = [locked |-> FALSE, waiters |-> <<>>]
    /\ handlers = EmptyMap
    /\ lookups = [r \in Runs |-> 0]
    /\ untracked_jobs = [count |-> 0, timestamp |-> 0]
    /\ spawn_attempts = EmptyMap
    /\ cancel_seen = {}
    /\ created_at = EmptyMap
    /\ running = {}
    /\ io = {}
    /\ resp = NoResp

\* A dedup window of time passes.  Every suspension of a handler is an HTTP
\* call under HTTP_TIMEOUT_SECONDS = 30, or a wait for a handler in such a call,
\* so no handler stays suspended for a whole window.
Tick ==
    /\ now + TickSeconds <= MaxTicks * TickSeconds
    /\ DOMAIN handlers = {}
    /\ now' = now + TickSeconds
    /\ io' = {}
    /\ resp' = NoResp
    /\ UNCHANGED <<nextDelivery, _processed_deliveries, untracked, core>>

\* More than the staleness threshold of time passes, with no handler suspended.
Day ==
    /\ now < MaxDays * (RUN_STALE_THRESHOLD_SECONDS + 1)
    /\ DOMAIN handlers = {}
    /\ now' = now + RUN_STALE_THRESHOLD_SECONDS + 1
    /\ io' = {}
    /\ resp' = NoResp
    /\ UNCHANGED <<nextDelivery, _processed_deliveries, untracked, core>>

\* Ids the environment may put in the next event: any id used before, or the
\* next unused one.
Sendable == {d \in Deliveries : d <= nextDelivery}
SeenJobs == DOMAIN _processed_jobs
SeenRuns == (DOMAIN _run_configs) \cup {handlers[d].run_id : d \in DOMAIN handlers}
UsableJobs == {j \in Jobs : j <= Cardinality(SeenJobs) + 1}
UsableRuns == {r \in Runs : r <= Cardinality(SeenRuns) + 1}

\* Lines 434-436: a recorded delivery id.
Duplicate(d) ==
    /\ d \in _processed_deliveries
    /\ io' = {}
    /\ resp' = Arrival(d, "duplicate")
    /\ UNCHANGED <<now, nextDelivery, _processed_deliveries, untracked, core>>

\* Record without the test of line 434: a recorded id is processed again.
Record_Unchecked(d) ==
    /\ d \notin DOMAIN handlers
    /\ \E c \in _cleanup_delivery_cache(_processed_deliveries, untracked) :
          /\ _processed_deliveries' = c.tracked \cup {d}
          /\ untracked' = c.others
    /\ nextDelivery' = IF d = nextDelivery THEN nextDelivery + 1 ELSE nextDelivery

\* Lines 434-439: the id is not recorded; trim the set, then add the id.
Record(d) ==
    /\ d \notin _processed_deliveries
    /\ d \notin DOMAIN handlers
    /\ \E c \in _cleanup_delivery_cache(_processed_deliveries, untracked) :
          /\ _processed_deliveries' = c.tracked \cup {d}
          /\ untracked' = c.others
    /\ nextDelivery' = IF d = nextDelivery THEN nextDelivery + 1 ELSE nextDelivery

\* An event that is recorded and then dropped: malformed JSON, an action other
\* than queued/completed, no "modal" label, an unauthorized or invalid repo.
Ignored(d) ==
    /\ Record(d)
    /\ io' = {}
    /\ resp' = Arrival(d, "ignored")
    /\ UNCHANGED <<now, core>>

\* As many events of the Ignored kind, each with a fresh delivery id outside
\* Deliveries, as bring the set to DELIVERY_CACHE_MAX_SIZE + 1 ids.  Every one
\* of them finds at most DELIVERY_CACHE_MAX_SIZE ids and so trims nothing.
Flood ==
    /\ untracked = 0
    /\ DeliveryCount <= DELIVERY_CACHE_MAX_SIZE
    /\ untracked' = DELIVERY_CACHE_MAX_SIZE + 1 - Cardinality(_processed_deliveries)
    /\ io' = {}
    /\ resp' = Response("ignored")
    /\ UNCHANGED <<now, nextDelivery, _processed_deliveries, core>>

\* The same at any time: as many events of the Ignored kind, each with a fresh
\* delivery id, as bring the set from whatever it holds to
\* DELIVERY_CACHE_MAX_SIZE + 1 ids.
Burst ==
    /\ DeliveryCount <= DELIVERY_CACHE_MAX_SIZE
    /\ untracked' = DELIVERY_CACHE_MAX_SIZE + 1 - Cardinality(_processed_deliveries)
    /\ io' = {}
    /\ resp' = Response("ignored")
    /\ UNCHANGED <<now, nextDelivery, _processed_deliveries, core>>

\* One more event of the Ignored kind with a fresh delivery id outside
\* Deliveries, arriving when the set is above its cap: lines 438-439 trim the
\* set and add the id.
Overflow ==
    /\ DeliveryCount > DELIVERY_CACHE_MAX_SIZE
    /\ \E c \in _cleanup_delivery_cache(_processed_deliveries, untracked) :
          /\ _processed_deliveries' = c.tracked
          /\ untracked' = c.others + 1
    /\ io' = {}
    /\ resp' = Response("ignored")
    /\ UNCHANGED <<now, nextDelivery, core>>

\* As many queued-phase events, each with a fresh delivery id outside
\* Deliveries and a fresh job id outside Jobs, as bring _processed_jobs to
\* MAX_PROCESSED_CACHE_SIZE + 1 entries, handled one after the other at the
\* same instant.  They are events of run 1, which is registered (no lookup),
\* and the generate-jitconfig request of every one fails, so that each leaves
\* its dedup record and its delivery id and nothing else.  None of them finds
\* more than MAX_PROCESSED_CACHE_SIZE job ids, and, the delivery ids so far
\* being no more than the job ids, none finds more than
\* DELIVERY_CACHE_MAX_SIZE delivery ids: nothing is trimmed on the way.
JobFlood ==
    /\ untracked_jobs.count = 0
    /\ untracked = 0
    /\ DOMAIN handlers = {}
    /\ 1 \in DOMAIN _run_configs
    /\ LET n == MAX_PROCESSED_CACHE_SIZE + 1 - Cardinality(DOMAIN _processed_jobs)
       IN  /\ Cardinality(_processed_deliveries) + n <= DELIVERY_CACHE_MAX_SIZE + 1
           /\ untracked_jobs' = [count |-> n, timestamp |-> now]
           /\ untracked' = n
    /\ io' = {}
    /\ resp' = Response("error")
    /\ UNCHANGED <<now, nextDelivery, _processed_deliveries, _processed_jobs,
                   _run_configs, created_at, _active_jobs, _run_config_lock,
                   handlers, lookups, spawn_attempts, cancel_seen, running>>

\* action == "completed": lines 457-526, with the drain it awaits.
Terminal(d, job_id, run_id, conclusion, ok) ==
    /\ Record(d)
    /\ LET s == [rc |-> _run_configs, aj |-> _active_jobs, io |-> {},
                 sa |-> spawn_attempts, run |-> running]
           t == IF conclusion = "cancelled"
                THEN HandleCancelled(s, job_id, run_id, ok)
                ELSE HandleCompleted(s, job_id, run_id, ok)
       IN  /\ _run_configs' = t.rc
           /\ _active_jobs' = t.aj
           /\ spawn_attempts' = t.sa
           /\ running' = t.run \ {e \in running : e.job_id = job_id}
           /\ io' = t.io
           /\ resp' = IF conclusion = "cancelled"
                      THEN Arrival(d, "terminated")
                      ELSE IF CompletedRaises(s, job_id, run_id)
                      THEN Arrival(d, "error")
                      ELSE Arrival(d, "completed")
    /\ cancel_seen' =
          IF conclusion = "cancelled"
          THEN cancel_seen \cup {h \in DOMAIN handlers :
                                    /\ handlers[h].job_id = job_id
                                    /\ handlers[h].run_id = run_id}
          ELSE cancel_seen
    /\ UNCHANGED <<now, _processed_jobs, untracked_jobs, created_at,
                   _run_config_lock, handlers, lookups>>

\* action == "queued", lines 563-569: the job id is a recent one.
DuplicateJob(d, job_id, run_id) ==
    /\ Record(d)
    /\ RecentlyProcessed(_processed_jobs, job_id, now)
    /\ io' = {}
    /\ resp' = Arrival(d, "duplicate_job")
    /\ UNCHANGED <<now, core>>

\* Lines 577-621 once the lock is held.  A registered run: release, bind
\* run_config, send the generate-jitconfig request.  A new run: call
\* fetch_workflow_max_parallel with the lock held.
EnterLock(d, h, lock) ==
    IF h.run_id \in DOMAIN _run_configs
    THEN /\ _run_config_lock' = Release(lock)
         /\ handlers' = Put(handlers, d, [h EXCEPT !.pc = "jit"])
         /\ lookups' = lookups
         /\ io' = {"jit"}
    ELSE /\ _run_config_lock' = [lock EXCEPT !.locked = TRUE]
         /\ handlers' = Put(handlers, d, [h EXCEPT !.pc = "fetch"])
         /\ lookups' = [lookups EXCEPT ![h.run_id] = @ + 1]
         /\ io' = {"lookup"}

\* action == "queued", lines 563-576: admit the job id, then reach the lock.
Queued(d, job_id, run_id) ==
    /\ Record(d)
    /\ Cardinality(DOMAIN handlers) < MaxInflight
    /\ ~RecentlyProcessed(_processed_jobs, job_id, now)
    /\ LET c == _cleanup_job_cache(_processed_jobs, untracked_jobs, now)
       IN  /\ _processed_jobs' = Put(c.jobs, job_id, now)
           /\ untracked_jobs' = c.others
    /\ LET h == [pc |-> "lock", job_id |-> job_id, run_id |-> run_id,
                 current_time |-> now]
       IN  IF LockFree(_run_config_lock)
           THEN EnterLock(d, h, _run_config_lock)
           ELSE /\ _run_config_lock' =
                       [_run_config_lock EXCEPT !.waiters = Append(@, d)]
                /\ handlers' = Put(handlers, d, h)
                /\ lookups' = lookups
                /\ io' = {}
    /\ resp' = Arrival(d, "none")
    /\ UNCHANGED <<now, _run_configs, created_at, _active_jobs, spawn_attempts,
                   cancel_seen, running>>

\* The first waiter, woken by a release, takes the lock.
LockGranted(d) ==
    /\ d \in DOMAIN handlers
    /\ handlers[d].pc = "lock"
    /\ ~_run_config_lock.locked
    /\ _run_config_lock.waiters # <<>>
    /\ Head(_run_config_lock.waiters) = d
    /\ EnterLock(d, handlers[d],
                 [locked |-> TRUE, waiters |-> Tail(_run_config_lock.waiters)])
    /\ resp' = NoResp
    /\ UNCHANGED <<now, nextDelivery, _processed_deliveries, untracked,
                   _processed_jobs, untracked_jobs, _run_configs, created_at,
                   _active_jobs, spawn_attempts, cancel_seen, running>>

\* Lines 579-621: the lookup returns, the RunConfig is stored, the lock is
\* released, and the handler goes on to the generate-jitconfig request.
FetchReturn(d, outcome) ==
    /\ d \in DOMAIN handlers
    /\ handlers[d].pc = "fetch"
    /\ _run_configs' = Put(_run_configs, handlers[d].run_id,
                           RunConfig(fetch_workflow_max_parallel(outcome)))
    /\ created_at' = Put(created_at, handlers[d].run_id, now)
    /\ _run_config_lock' = Release(_run_config_lock)
    /\ handlers' = Put(handlers, d, [handlers[d] EXCEPT !.pc = "jit"])
    /\ io' = {"jit"}
    /\ resp' = NoResp
    /\ UNCHANGED <<now, nextDelivery, _processed_deliveries, untracked,
                   _processed_jobs, untracked_jobs, _active_jobs, lookups,
                   spawn_attempts, cancel_seen, running>>

\* Lines 628-644: the generate-jitconfig request fails; HTTPException.
JitFails(d) ==
    /\ d \in DOMAIN handlers
    /\ handlers[d].pc = "jit"
    /\ handlers' = Del(handlers, d)
    /\ cancel_seen' = cancel_seen \ {d}
    /\ io' = {}
    /\ resp' = Response("error")
    /\ UNCHANGED <<now, nextDelivery, _processed_deliveries, untracked,
                   _processed_jobs, untracked_jobs, _run_configs, created_at,
                   _active_jobs, _run_config_lock, lookups, spawn_attempts,
                   running>>

\* Lines 627, 646-688: the JIT config arrives.  It is named after the admission
\* time of the request (a job id is admitted at most once per instant).
JitReturn(d, ok) ==
    /\ d \in DOMAIN handlers
    /\ handlers[d].pc = "jit"
    /\ LET h == handlers[d]
           s == [rc |-> _run_configs, aj |-> _active_jobs, io |-> {},
                 sa |-> spawn_attempts, run |-> running]
           t == Admit(s, h.job_id, h.run_id, h.current_time, ok)
       IN  /\ _run_configs' = t.rc
           /\ _active_jobs' = t.aj
           /\ spawn_attempts' = t.sa
           /\ running' = t.run
           /\ io' = t.io
           /\ resp' = AdmitResponse(s, t, h.run_id, ok)
    /\ handlers' = Del(handlers, d)
    /\ cancel_seen' = cancel_seen \ {d}
    /\ UNCHANGED <<now, nextDelivery, _processed_deliveries, untracked,
                   _processed_jobs, untracked_jobs, created_at, _run_config_lock,
                   lookups>>

Next ==
    \/ Tick
    \/ \E d \in Sendable : Duplicate(d)
    \/ \E d \in Sendable : Ignored(d)
    \/ \E d \in Sendable, j \in UsableJobs, r \in UsableRuns, ok \in BOOLEAN,
          c \in {"cancelled", "success"} : Terminal(d, j, r, c, ok)
    \/ \E d \in Sendable, j \in UsableJobs, r \in UsableRuns :
          DuplicateJob(d, j, r)
    \/ \E d \in Sendable, j \in UsableJobs, r \in UsableRuns : Queued(d, j, r)
    \/ \E d \in Deliveries : LockGranted(d)
    \/ \E d \in Deliveries, o \in LookupOutcomes : FetchReturn(d, o)
    \/ \E d \in Deliveries : JitFails(d)
    \/ \E d \in Deliveries, ok \in BOOLEAN : JitReturn(d, ok)

Spec == Init /\ [][Next]_vars

\* The same handler under a flood of deliveries: one run, two jobs, no clock.
FloodJobs == {j \in UsableJobs : j <= 2}
NextFlood ==
    \/ Flood
    \/ JobFlood
    \/ \E d \in Sendable : Duplicate(d)
    \/ \E d \in Sendable : Ignored(d)
    \/ \E d \in Sendable, j \in FloodJobs, ok \in BOOLEAN,
          c \in {"cancelled", "success"} : Terminal(d, j, 1, c, ok)
    \/ \E d \in Sendable, j \in FloodJobs : DuplicateJob(d, j, 1)
    \/ \E d \in Sendable, j \in FloodJobs : Queued(d, j, 1)
    \/ \E d \in Deliveries : LockGranted(d)
    \/ \E d \in Deliveries, o \in LookupOutcomes : FetchReturn(d, o)
    \/ \E d \in Deliveries : JitFails(d)
    \/ \E d \in Deliveries, ok \in BOOLEAN : JitReturn(d, ok)

SpecFlood == Init /\ [][NextFlood]_vars

\* The same handler with one workflow run, no clock, no replayed and no
\* ignored event, over a longer sequence of deliveries: long enough for two
\* drains of the same queue.
RetryDeliveries == 1 .. MaxRetryDeliveries
SendableRetry == {d \in RetryDeliveries : d <= nextDelivery}
NextRetry ==
    \/ \E d \in SendableRetry, j \in UsableJobs, ok \in BOOLEAN,
          c \in {"cancelled", "success"} : Terminal(d, j, 1, c, ok)
    \/ \E d \in SendableRetry, j \in UsableJobs : DuplicateJob(d, j, 1)
    \/ \E d \in SendableRetry, j \in UsableJobs : Queued(d, j, 1)
    \/ \E d \in RetryDeliveries : LockGranted(d)
    \/ \E d \in RetryDeliveries, o \in LookupOutcomes : FetchReturn(d, o)
    \/ \E d \in RetryDeliveries : JitFails(d)
    \/ \E d \in RetryDeliveries, ok \in BOOLEAN : JitReturn(d, ok)

SpecRetry == Init /\ [][NextRetry]_vars

\* The same handler with one workflow run and one job over more than a day,
\* while events never stop arriving: every event has a new delivery id, so the
\* delivery set fills up and is trimmed again and again.  With one job there
\* are never two handlers in flight, and nobody waits for the lock.
NextStale ==
    \/ Day
    \/ Burst
    \/ Overflow
    \/ \E d \in Sendable : Duplicate(d)
    \/ \E d \in Sendable : Ignored(d)
    \/ \E d \in Sendable, ok \in BOOLEAN, c \in {"cancelled", "success"} :
          Terminal(d, 1, 1, c, ok)
    \/ \E d \in Sendable : DuplicateJob(d, 1, 1)
    \/ \E d \in Sendable : Queued(d, 1, 1)
    \/ \E d \in Deliveries, o \in LookupOutcomes : FetchReturn(d, o)
    \/ \E d \in Deliveries : JitFails(d)
    \/ \E d \in Deliveries, ok \in BOOLEAN : JitReturn(d, ok)

\* Events keep being processed: some step of the handler is always taken.
SpecStale == Init /\ [][NextStale]_vars /\ WF_vars(NextStale)


\* ----------------------------------------------------------------- claims
ActiveJobsOf(r) == {j \in DOMAIN _active_jobs : _active_jobs[j].run_id = r}

\* C1: in every reachable state every run entry has
\* 0 <= active_count <= max_parallel.
C1_CapacityInvariant ==
    \A r \in DOMAIN _run_configs :
        /\ 0 <= _run_configs[r].active_count
        /\ _run_configs[r].active_count <= _run_configs[r].max_parallel

\* C2: in every reachable state the number of ledger entries whose run_id is
\* a run equals that run's active_count.
C2_LedgerMatchesActiveCount ==
    \A r \in DOMAIN _run_configs :
        Cardinality(ActiveJobsOf(r)) = _run_configs[r].active_count

\* A terminal event (action "completed") for job j arrives in this step.
TerminalFor(j) ==
    \E d \in Deliveries, r \in Runs, ok \in BOOLEAN,
       c \in {"cancelled", "success"} : Terminal(d, j, r, c, ok)

\* The run that owns an active job: the run_id its ledger entry was made with.
Owner(j) == _active_jobs[j].run_id

\* Units of active_count of run r released in this step by the terminal event
\* for j: the fall of active_count, not counting a slot the drain of the same
\* step gave to a job it took from r's queue.
Released(j, r) ==
    _run_configs[r].active_count - _run_configs'[r].active_count
    + (Cardinality({k \in DOMAIN _active_jobs' : _active_jobs'[k].run_id = r})
       - Cardinality(ActiveJobsOf(r) \ {j}))

InSomeQueue(j) ==
    \E r \in DOMAIN _run_configs :
        \E i \in 1 .. Len(_run_configs[r].queue) :
            _run_configs[r].queue[i].job_id = j

\* C3: a terminal event for a job that is in the ledger releases exactly one
\* unit of its owning run's active_count, and a terminal event for a job that
\* is in neither the ledger nor a queue changes neither the registry nor the
\* ledger.
C3_ExactlyOneDecrement ==
    [][\A j \in Jobs :
          TerminalFor(j) =>
              IF j \in DOMAIN _active_jobs
              THEN Released(j, Owner(j)) = 1
              ELSE InSomeQueue(j) \/ UNCHANGED <<_run_configs, _active_jobs>>]_vars

\* C4 as claimed: an event whose delivery id was sent before returns the
\* duplicate status, makes no external call and changes nothing.
C4_ReplayIsDuplicate ==
    [][resp'.sent_before =>
          /\ resp'.status = "duplicate"
          /\ io' = {}
          /\ UNCHANGED <<_processed_deliveries, untracked, core>>]_vars

\* C4 as amended: an event whose delivery id is in _processed_deliveries
\* returns the duplicate status, makes no external call and changes nothing;
\* and an id leaves the set only in a step that finds more than
\* DELIVERY_CACHE_MAX_SIZE ids in it.
C4_ReplayOfRecordedIsDuplicate ==
    [][/\ resp'.recorded =>
             /\ resp'.status = "duplicate"
             /\ io' = {}
             /\ UNCHANGED <<_processed_deliveries, untracked, core>>
       /\ \A d \in _processed_deliveries :
             \/ d \in _processed_deliveries'
             \/ DeliveryCount > DELIVERY_CACHE_MAX_SIZE]_vars

\* A replay answered as a duplicate while the set is full and a job is known.
C4_Witness ==
    /\ resp.recorded
    /\ resp.status = "duplicate"
    /\ untracked > 0
    /\ DOMAIN _processed_jobs # {}

\* A queued-phase event for job j arrives in this step.
QueuedFor(j) ==
    \E d \in Deliveries, r \in Runs :
        DuplicateJob(d, j, r) \/ Queued(d, j, r)

\* C5: a queued-phase event for a job id admitted less than
\* JOB_DEDUP_WINDOW_SECONDS ago returns the duplicate-job status with no
\* external call and no change of registry, queues, ledger, handlers or the
\* stored timestamp; otherwise the job id is admitted now and a handler starts.
C5_DedupWindow ==
    [][\A j \in Jobs :
          QueuedFor(j) =>
              IF /\ j \in DOMAIN _processed_jobs
                 /\ now - _processed_jobs[j] < JOB_DEDUP_WINDOW_SECONDS
              THEN /\ resp'.status = "duplicate_job"
                   /\ io' = {}
                   /\ UNCHANGED core
              ELSE /\ resp'.status = "none"
                   /\ _processed_jobs'[j] = now
                   /\ \E d \in (DOMAIN handlers') \ (DOMAIN handlers) :
                         handlers'[d].job_id = j]_vars

\* A job admitted at time 0 and again a window later, and then a duplicate.
C5_Witness ==
    /\ resp.status = "duplicate_job"
    /\ \E j \in DOMAIN _active_jobs :
          /\ _active_jobs[j].sandbox = 0
          /\ _processed_jobs[j] = JOB_DEDUP_WINDOW_SECONDS

\* The entries of a queue, and the position of one of them.  The entries of
\* one queue are distinct: a job id is admitted at most once per instant.
Range(q) == {q[i] : i \in 1 .. Len(q)}
Pos(q, e) == CHOOSE i \in 1 .. Len(q) : q[i] = e

\* Queue p becomes queue q: the entries that stay keep their order, and the
\* entries that come stand behind all that stay.
OrderKept(p, q) ==
    /\ \A i, k \in 1 .. Len(p) :
          i < k /\ p[i] \in Range(q) /\ p[k] \in Range(q)
              => Pos(q, p[i]) < Pos(q, p[k])
    /\ \A i, k \in 1 .. Len(q) :
          q[i] \notin Range(p) /\ q[k] \in Range(p) => k < i

\* The entries of run r's queue that the drain of this step dispatches: they
\* leave the queue and the ledger gets the sandbox started with their config.
Drained(r) ==
    {e \in Range(_run_configs[r].queue) :
        /\ "drain" \in io'
        /\ e \notin Range(_run_configs'[r].queue)
        /\ e.job_id \in DOMAIN _active_jobs'
        /\ _active_jobs'[e.job_id] = ActiveJob(e.jit_config, r)
        /\ \/ e.job_id \notin DOMAIN _active_jobs
           \/ _active_jobs[e.job_id] # ActiveJob(e.jit_config, r)}

\* C6: a run's queue keeps the order of enqueueing (entries only join at the
\* tail, entries that stay keep their order, a failed drain leaves the order
\* as it was), and a drain dispatches only an entry none of whose
\* predecessors stays queued, at most one per step.
C6_FifoDrain ==
    [][\A r \in DOMAIN _run_configs :
          /\ r \in DOMAIN _run_configs'
          /\ OrderKept(_run_configs[r].queue, _run_configs'[r].queue)
          /\ Cardinality(Drained(r)) <= 1
          /\ \A e \in Drained(r) :
                \A i \in 1 .. (Pos(_run_configs[r].queue, e) - 1) :
                    _run_configs[r].queue[i] \notin Range(_run_configs'[r].queue)
      ]_vars

\* A drain has dispatched the head of a queue and left a job behind it.
C6_Witness ==
    /\ io = {"drain", "spawn"}
    /\ \E r \in DOMAIN _run_configs :
          /\ _run_configs[r].max_parallel >= 1
          /\ _run_configs[r].active_count = _run_configs[r].max_parallel
          /\ Len(_run_configs[r].queue) >= 1

\* C7: in a run of limit 2, with no failure, a job admitted at active_count 0
\* is dispatched (active_count 1), at active_count 1 is dispatched
\* (active_count 2), at active_count 2 with an empty queue is queued at
\* position 1; and the completion of one of two active jobs with one job
\* queued takes it from the ledger, dispatches the queued job and leaves
\* active_count 2, an empty queue and the other two jobs in the ledger.
C7_ScenarioA ==
    [][\A d \in Deliveries, r \in DOMAIN _run_configs :
          _run_configs[r].max_parallel = 2 =>
          /\ (d \in DOMAIN handlers /\ handlers[d].run_id = r /\ JitReturn(d, TRUE))
             => LET j == handlers[d].job_id
                    rc == _run_configs[r]
                    rc2 == _run_configs'[r]
                IN  /\ rc.active_count \in {0, 1} =>
                         /\ resp'.status = "provisioned"
                         /\ resp'.active_count = rc.active_count + 1
                         /\ rc2.active_count = rc.active_count + 1
                         /\ rc2.queue = rc.queue
                         /\ _active_jobs' =
                               Put(_active_jobs, j,
                                   ActiveJob(handlers[d].current_time, r))
                    /\ rc.active_count = 2 /\ rc.queue = <<>> =>
                         /\ resp'.status = "queued"
                         /\ resp'.queue_position = 1
                         /\ rc2.active_count = 2
                         /\ rc2.queue =
                               <<QueuedJob(j, handlers[d].current_time, r)>>
                         /\ _active_jobs' = _active_jobs
          /\ \A j \in Jobs :
                (/\ j \in ActiveJobsOf(r)
                 /\ Cardinality(ActiveJobsOf(r)) = 2
                 /\ _run_configs[r].active_count = 2
                 /\ Len(_run_configs[r].queue) = 1
                 /\ _run_configs[r].queue[1].job_id \notin DOMAIN _active_jobs
                 /\ Terminal(d, j, r, "success", TRUE))
                => LET e == _run_configs[r].queue[1]
                   IN  /\ resp'.status = "completed"
                       /\ io' = {"drain", "spawn"}
                       /\ _run_configs'[r].active_count = 2
                       /\ _run_configs'[r].queue = <<>>
                       /\ _active_jobs' =
                             Put(Del(_active_jobs, j), e.job_id,
                                 ActiveJob(e.jit_config, r))
      ]_vars

\* Scenario A at its end: J1, J2, J3 were submitted to a run of limit 2, J1
\* has completed and the drain has dispatched J3.
C7_Witness ==
    /\ resp.status = "completed"
    /\ io = {"drain", "spawn"}
    /\ DOMAIN _processed_jobs = {1, 2, 3}
    /\ \E r \in DOMAIN _run_configs :
          /\ _run_configs[r].max_parallel = 2
          /\ _run_configs[r].active_count = 2
          /\ _run_configs[r].queue = <<>>
          /\ ActiveJobsOf(r) = {2, 3}
          /\ DOMAIN _active_jobs = {2, 3}

\* C8: a cancellation event for a job that is in the queue of the event's run
\* removes that entry and nothing else: the other entries keep their order,
\* active_count and the ledger stay, and no external call and no drain is made.
C8_CancelQueuedOnlyDequeues ==
    [][\A d \in Deliveries, j \in Jobs, r \in DOMAIN _run_configs,
          ok \in BOOLEAN :
          (/\ QueueIndex(_run_configs[r].queue, j) > 0
           /\ Terminal(d, j, r, "cancelled", ok))
          => /\ _run_configs' =
                   [_run_configs EXCEPT ![r].queue =
                        RemoveAt(@, QueueIndex(@, j))]
             /\ _active_jobs' = _active_jobs
             /\ io' = {}
      ]_vars

\* C9: a lookup that fails or finds no declared value creates the run entry
\* with limit 2 and lets the handler go on; a stored limit never changes; and
\* every job of a run of limit 2 is dispatched when active_count < 2 and
\* queued otherwise.
C9_DefaultLimit ==
    [][/\ \A d \in DOMAIN handlers :
             /\ \A o \in {x \in LookupOutcomes : x.kind # "declared"} :
                   FetchReturn(d, o) =>
                       /\ handlers[d].run_id \notin DOMAIN _run_configs
                       /\ handlers[d].run_id \in DOMAIN _run_configs'
                       /\ _run_configs'[handlers[d].run_id] = RunConfig(2)
                       /\ handlers'[d] = [handlers[d] EXCEPT !.pc = "jit"]
             /\ \A ok \in BOOLEAN :
                   (JitReturn(d, ok)
                    /\ _run_configs[handlers[d].run_id].max_parallel = 2) =>
                       LET r == handlers[d].run_id
                           j == handlers[d].job_id
                           e == QueuedJob(j, handlers[d].current_time, r)
                       IN  IF _run_configs[r].active_count < 2
                           THEN /\ "spawn" \in io'
                                /\ resp'.status =
                                      IF ok THEN "provisioned" ELSE "error"
                                /\ _run_configs'[r].queue = _run_configs[r].queue
                                /\ ok => /\ j \in DOMAIN _active_jobs'
                                         /\ _active_jobs'[j].run_id = r
                           ELSE /\ io' = {}
                                /\ resp'.status = "queued"
                                /\ resp'.max_parallel = 2
                                /\ _run_configs'[r].queue =
                                      Append(_run_configs[r].queue, e)
                                /\ _active_jobs' = _active_jobs
       /\ \A r \in DOMAIN _run_configs :
             /\ r \in DOMAIN _run_configs'
             /\ _run_configs'[r].max_parallel = _run_configs[r].max_parallel
      ]_vars

\* A run whose lookup gave no value holds two active jobs and a queued one.
C9_Witness ==
    \E r \in DOMAIN _run_configs :
        /\ _run_configs[r].max_parallel = 2
        /\ Cardinality(ActiveJobsOf(r)) = 2
        /\ _run_configs[r].active_count = 2
        /\ Len(_run_configs[r].queue) >= 1
        /\ resp.status = "queued"

\* The handlers suspended in fetch_workflow_max_parallel for run r.
Fetching(r) ==
    {d \in DOMAIN handlers : handlers[d].pc = "fetch" /\ handlers[d].run_id = r}

\* C10: for every run id the lookup has been called once when the run is
\* registered or its lookup is under way and never otherwise; at most one
\* handler is in the lookup, and none for a registered run.
C10_LookupOncePerRun ==
    \A r \in Runs :
        /\ lookups[r] =
              IF r \in DOMAIN _run_configs \/ Fetching(r) # {} THEN 1 ELSE 0
        /\ Cardinality(Fetching(r)) <= 1
        /\ r \in DOMAIN _run_configs => Fetching(r) = {}
        /\ \A d \in DOMAIN handlers :
              handlers[d].pc = "jit" => handlers[d].run_id \in DOMAIN _run_configs

\* Two events for the same never-seen run in flight: one in the lookup, the
\* other waiting for the lock.
C10_Witness ==
    \E r \in Runs, d, w \in DOMAIN handlers :
        /\ handlers[d].pc = "fetch" /\ handlers[d].run_id = r
        /\ handlers[w].pc = "lock" /\ handlers[w].run_id = r
        /\ r \notin DOMAIN _run_configs
        /\ lookups[r] = 1

\* C11: when the generate-jitconfig request or the immediate spawn fails, the
\* caller gets an error, registry and ledger are as before, and no dedup
\* record of the job remains.
C11_FailureLeavesNoTrace ==
    [][\A d \in DOMAIN handlers :
          (JitFails(d) \/ (JitReturn(d, FALSE) /\ "spawn" \in io'))
          => /\ resp'.status = "error"
             /\ UNCHANGED <<_run_configs, _active_jobs>>
             /\ handlers[d].job_id \notin DOMAIN _processed_jobs'
      ]_vars

\* C12: a terminal event whose drain pops a job and fails to spawn it leaves
\* the queue as it was before the drain (the popped job at the head, the
\* others behind it in their order), leaves active_count as the release left
\* it, and adds nothing to the ledger.
C12_FailedDrainRestoresQueue ==
    [][\A d \in Deliveries, j \in Jobs, r \in DOMAIN _run_configs,
          c \in {"cancelled", "success"} :
          (Terminal(d, j, r, c, FALSE) /\ "spawn" \in io')
          => LET q == _run_configs[r].queue
                 before == IF c = "cancelled" /\ QueueIndex(q, j) > 0
                           THEN RemoveAt(q, QueueIndex(q, j))
                           ELSE q
             IN  /\ before # <<>>
                 /\ _run_configs' =
                       [_run_configs EXCEPT
                           ![r].queue = before,
                           ![r].active_count = Max(0, @ - 1)]
                 /\ _active_jobs' = Del(_active_jobs, j)
      ]_vars

\* A failed drain has left two jobs queued, the one it tried at the head.
C12_Witness ==
    /\ io = {"drain", "spawn"}
    /\ \E r \in DOMAIN _run_configs :
          /\ _run_configs[r].active_count < _run_configs[r].max_parallel
          /\ Len(_run_configs[r].queue) >= 2
          /\ Attempts(spawn_attempts,
                      Credential(_run_configs[r].queue[1].job_id,
                                 _run_configs[r].queue[1].jit_config)) = 1
          /\ Attempts(spawn_attempts,
                      Credential(_run_configs[r].queue[2].job_id,
                                 _run_configs[r].queue[2].jit_config)) = 0

\* C13: a cancellation event for a job in the ledger makes the terminate
\* call, removes the ledger entry, releases one unit of the owning run's
\* active_count and drains.
C13_CancelActive ==
    [][\A d \in Deliveries, j \in DOMAIN _active_jobs, r \in Runs,
          ok \in BOOLEAN :
          Terminal(d, j, r, "cancelled", ok)
          => /\ "terminate" \in io'
             /\ "drain" \in io'
             /\ Released(j, Owner(j)) = 1
      ]_vars

\* The runs that own job j: the run of its ledger entry and the runs whose
\* queue holds it.
Owners(j) ==
    {r \in DOMAIN _run_configs :
        \/ j \in DOMAIN _active_jobs /\ _active_jobs[j].run_id = r
        \/ QueueIndex(_run_configs[r].queue, j) > 0}

\* C14: a terminal event for a job, with a run id that is none of the job's
\* owners, changes neither the registry nor the ledger and makes no terminate
\* call and no drain.
C14_MismatchedRunIgnored ==
    [][\A d \in Deliveries, j \in Jobs, r \in Runs, ok \in BOOLEAN,
          c \in {"cancelled", "success"} :
          (Owners(j) # {} /\ r \notin Owners(j) /\ Terminal(d, j, r, c, ok))
          => /\ UNCHANGED <<_run_configs, _active_jobs>>
             /\ "terminate" \notin io'
             /\ "drain" \notin io'
      ]_vars

\* C15: in every reachable state every credential has been given to at most
\* one call of _spawn_sandbox, the calls of the drain and the failed calls
\* included.
C15_CredentialUsedOnce ==
    \A c \in DOMAIN spawn_attempts : spawn_attempts[c] <= 1

\* C16: in every reachable state every run entry's limit is at least 1.
C16_LimitPositive ==
    \A r \in DOMAIN _run_configs : _run_configs[r].max_parallel >= 1

\* The places <<run, position>> of the queues that hold job j.
QueuePlaces(j) ==
    {p \in (DOMAIN _run_configs) \X (1 .. MaxDeliveries) :
        /\ p[2] <= Len(_run_configs[p[1]].queue)
        /\ _run_configs[p[1]].queue[p[2]].job_id = j}

\* C17: in every reachable state a job id is at no more than one place of all
\* the queues together.
C17_JobQueuedOnce ==
    \A j \in Jobs : Cardinality(QueuePlaces(j)) <= 1

\* C18: when the handler of a queued-phase event finishes after a cancellation
\* event for its job and run was processed in the meantime, the job is in no
\* queue and not in the ledger, and the run's active_count is as before.
C18_CancelInFlightNotLost ==
    [][\A d \in (DOMAIN handlers) \cap cancel_seen, ok \in BOOLEAN :
          JitReturn(d, ok)
          => LET j == handlers[d].job_id
                 r == handlers[d].run_id
             IN  /\ j \notin DOMAIN _active_jobs'
                 /\ \A q \in DOMAIN _run_configs' :
                       QueueIndex(_run_configs'[q].queue, j) = 0
                 /\ _run_configs'[r].active_count = _run_configs[r].active_count
      ]_vars

\* C19: no handler waits for the lock while a handler of another run holds it
\* in the lookup.
C19_RunsDoNotBlock ==
    \A w, d \in DOMAIN handlers :
        handlers[w].pc = "lock" /\ handlers[d].pc = "fetch"
            => handlers[w].run_id = handlers[d].run_id

\* C20: in every reachable state the delivery-id set holds at most
\* DELIVERY_CACHE_MAX_SIZE + 1 ids and the job map at most
\* MAX_PROCESSED_CACHE_SIZE + 1 entries.
C20_CachesCapped ==
    /\ DeliveryCount <= DELIVERY_CACHE_MAX_SIZE + 1
    /\ JobCount <= MAX_PROCESSED_CACHE_SIZE + 1

\* The executions spawned for run r that have received no terminal event.
RunningOf(r) == {e \in running : e.run_id = r}

\* C22: in every reachable state the executions spawned for a run that have
\* received no terminal event are no more than the run's limit (than 0, when
\* the limit is below 0).
C22_RunningWithinLimit ==
    \A r \in DOMAIN _run_configs :
        Cardinality(RunningOf(r)) <= Max(0, _run_configs[r].max_parallel)

\* C23: no state is reached where a run has a job queued and active_count
\* below its limit while no job is in the ledger and no handler is in flight,
\* so that no event to come will drain the queue.
C23_NoStrandedQueue ==
    \A r \in DOMAIN _run_configs :
        ~ /\ _run_configs[r].queue # <<>>
          /\ _run_configs[r].active_count < _run_configs[r].max_parallel
          /\ DOMAIN _active_jobs = {}
          /\ DOMAIN handlers = {}

\* C24: after the step of a terminal event for a job, the job is not in the
\* ledger and in no run's queue.
C24_TerminalClearsJob ==
    [][\A d \in Deliveries, j \in Jobs, r \in Runs, ok \in BOOLEAN,
          c \in {"cancelled", "success"} :
          Terminal(d, j, r, c, ok)
          => /\ j \notin DOMAIN _active_jobs'
             /\ \A q \in DOMAIN _run_configs' :
                   QueueIndex(_run_configs'[q].queue, j) = 0
      ]_vars

\* The run entry was created more than the staleness threshold ago.
Stale(r) ==
    /\ r \in DOMAIN _run_configs
    /\ now - created_at[r] > RUN_STALE_THRESHOLD_SECONDS

\* C21: a run entry that is stale is eventually out of the run registry.
C21_StaleRunEvicted ==
    \A r \in Runs : [](Stale(r) => <>(r \notin DOMAIN _run_configs))

====
